---- MODULE Spec2Model ----
(***************************************************************************)
(* Model of the Trait Editor plugin (src/src/lib.rs): the instance table   *)
(* `editors`, the id counter `next_editor_id`, the two mutexes guarding    *)
(* them, create_editor / on_unload as called by concurrent host threads,   *)
(* and the instance handles (TraitEditorWrapper) the host drives.          *)
(***************************************************************************)
EXTENDS Integers, Sequences, FiniteSets, TLC

\* ---------------------------------------------------------------- bounds
NumThreads == 2
MaxCreates == 2
MaxOps == 3

Threads == 1..NumThreads
NoThread == 0

\* ------------------------------------------------------- program constants
SupportedEditorId == "trait-editor"
MarkerFile == "trait.json"
InitialEditorId == 0

\* ---------------------------------------------------------- input domains
EditorIds == {"trait-editor", "Trait-Editor"}
Paths == {<<"a.trait">>, <<"a.trait", "trait.json">>}
DefaultDoc == "NewTrait"
Docs == {"NewTrait", "Edited"}

\* ------------------------------------------------------------- file system
\* PathBuf::join with a relative component appends it.
join(p, name) == Append(p, name)

AllPaths == Paths \cup {join(p, MarkerFile) : p \in Paths}

Parent(p) == SubSeq(p, 1, Len(p) - 1)

\* A path is "dir", "missing", or a file holding a document.  An entry
\* exists only inside a directory, and nothing lies below the deepest paths.
FsConsistent(f) ==
    \A p \in AllPaths :
        /\ (Len(p) > 1 /\ f[p] # "missing") => f[Parent(p)] = "dir"
        /\ (p \notin Paths) => f[p] # "dir"

\* The file systems the plugin starts on: files hold the default document.
FileSystems ==
    {f \in [AllPaths -> {"dir", "missing", DefaultDoc}] : FsConsistent(f)}

\* Path::is_dir: true only for an existing directory, false otherwise.
is_dir(f, p) == f[p] = "dir"

\* lib.rs:106-110
actual_pathWrong(f, file_path) ==
    IF f[file_path] # "missing" THEN join(file_path, MarkerFile) ELSE file_path

actual_path(f, file_path) ==
    IF is_dir(f, file_path) THEN join(file_path, MarkerFile) ELSE file_path

\* lib.rs:105
IsSupportedWrong(editor_id) == editor_id \in {SupportedEditorId, "Trait-Editor"}

IsSupported(editor_id) == editor_id = SupportedEditorId

\* TraitEditor::new_with_file (editor.rs): opens the document at `path`,
\* default content when there is no file to read.
new_with_file(f, path) ==
    [path |-> path, doc |-> IF f[path] \in Docs THEN f[path] ELSE DefaultDoc]

\* lib.rs:114-117
NewWrapperWrong(panel, file_path, actual) == [panel |-> panel, file_path |-> actual]

NewWrapper(panel, file_path, actual) == [panel |-> panel, file_path |-> file_path]

\* lib.rs:112: cx.new allocates a fresh entity on every call
NewEntityWrong(ents, actual) ==
    IF \E e \in 1..Len(ents) : ents[e].path = actual
    THEN CHOOSE e \in 1..Len(ents) : ents[e].path = actual
    ELSE Len(ents) + 1

NewEntity(ents, actual) == Len(ents) + 1

\* lib.rs:134
EditorNotFoundWrong(editor_id) == [variant |-> "EditorNotFound", editor_id |-> SupportedEditorId]

EditorNotFound(editor_id) == [variant |-> "EditorNotFound", editor_id |-> editor_id]

\* lib.rs:126-129
EditorStorageWrong(panel, wrapper) == [panel |-> 0, wrapper |-> wrapper]

EditorStorage(panel, wrapper) == [panel |-> panel, wrapper |-> wrapper]

\* lib.rs:157-159
file_path(wrapper) == wrapper.file_path

\* lib.rs:173-175
is_dirty(wrapper) == FALSE

\* ----------------------------------------------------------------- state
VARIABLES
    editors,          \* HashMap<usize, EditorStorage>
    next_editor_id,   \* usize counter
    idLock,           \* holder of the next_editor_id mutex, NoThread if free
    edLock,           \* holder of the editors mutex, NoThread if free
    pc,               \* position of each host thread inside a plugin call
    frame,            \* locals of the call each thread is executing
    lastReturn,       \* the value the step just taken returned (or logged) to the host
    entities,         \* gpui entities created by cx.new: the TraitEditor panels
    fs,               \* the file system
    handles,          \* Box<dyn EditorInstance> values handed to the host
    requested,        \* history: the file_path argument each entity was created for
    assigned,         \* history: ids in the order they were assigned
    tracking,         \* whether the histories `ops` and `persisted` are recorded
    persisted,        \* history: the document each entity last loaded or saved
    ops               \* history: registry calls in call order

vars == <<editors, next_editor_id, idLock, edLock, pc, frame, lastReturn,
          entities, fs, handles, requested, assigned, tracking, persisted, ops>>

NoFrame == [editor_id |-> "", file_path |-> <<>>, panel |-> 0, wrapper |-> <<>>,
            id |-> 0, count |-> 0, op |-> 0]
NoReturn == [kind |-> "none"]

EmptyMap == [k \in {} |-> 0]

InitBase ==
    /\ editors = EmptyMap
    /\ next_editor_id = InitialEditorId
    /\ idLock = NoThread
    /\ edLock = NoThread
    /\ pc = [t \in Threads |-> "idle"]
    /\ frame = [t \in Threads |-> NoFrame]
    /\ lastReturn = NoReturn
    /\ entities = <<>>
    /\ handles = {}
    /\ requested = <<>>
    /\ assigned = <<>>
    /\ persisted = <<>>
    /\ ops = <<>>

Init ==
    /\ InitBase
    /\ fs \in FileSystems
    /\ tracking = FALSE

\* Calls that had returned when a new call is issued.
Returned == {i \in 1..Len(ops) : ops[i].done}

CallBudget == tracking => Len(ops) < MaxOps

RecordCall(t, kind) ==
    IF tracking
    THEN ops' = Append(ops, [kind |-> kind, thread |-> t, done |-> FALSE,
                             res |-> 0, before |-> Returned])
    ELSE ops' = ops

RecordReturn(t, res) ==
    IF tracking
    THEN ops' = [ops EXCEPT ![frame[t].op].done = TRUE, ![frame[t].op].res = res]
    ELSE ops' = ops

\* ------------------------------------------------------- create_editor
\* lib.rs:104-105,133-135: unsupported editor id
CreateNotFoundWrong(t, editor_id) ==
    /\ pc[t] = "idle"
    /\ ~IsSupported(editor_id)
    /\ lastReturn' = [kind |-> "Err", requested |-> editor_id,
                      error |-> EditorNotFound(editor_id)]
    /\ next_editor_id' = next_editor_id + 1
    /\ UNCHANGED <<editors, idLock, edLock, pc, frame,
                   entities, fs, handles, requested, assigned, tracking, persisted, ops>>

CreateNotFound(t, editor_id) ==
    /\ pc[t] = "idle"
    /\ ~IsSupported(editor_id)
    /\ lastReturn' = [kind |-> "Err", requested |-> editor_id,
                      error |-> EditorNotFound(editor_id)]
    /\ UNCHANGED <<editors, next_editor_id, idLock, edLock, pc, frame,
                   entities, fs, handles, requested, assigned, tracking, persisted, ops>>

\* lib.rs:105-117: resolve the path, build the panel and the wrapper
CreateBuild(t, editor_id, path) ==
    /\ pc[t] = "idle"
    /\ IsSupported(editor_id)
    /\ Len(entities) < MaxCreates
    /\ CallBudget
    /\ LET actual == actual_path(fs, path)
           panel == NewEntity(entities, actual)
       IN /\ entities' = IF panel > Len(entities)
                         THEN Append(entities, new_with_file(fs, actual))
                         ELSE entities
          /\ requested' = IF panel > Len(entities)
                          THEN Append(requested, path) ELSE requested
          /\ persisted' = IF tracking /\ panel > Len(entities)
                          THEN Append(persisted, new_with_file(fs, actual).doc)
                          ELSE persisted
          /\ frame' = [frame EXCEPT ![t] =
                 [editor_id |-> editor_id, file_path |-> path, panel |-> panel,
                  wrapper |-> NewWrapper(panel, path, actual),
                  id |-> 0, count |-> 0,
                  op |-> IF tracking THEN Len(ops) + 1 ELSE 0]]
    /\ RecordCall(t, "create")
    /\ pc' = [pc EXCEPT ![t] = "wantId"]
    /\ lastReturn' = NoReturn
    /\ UNCHANGED <<editors, next_editor_id, idLock, edLock, fs,
                   handles, assigned, tracking>>

\* lib.rs:120: self.next_editor_id.lock()
CreateLockId(t) ==
    /\ pc[t] = "wantId"
    /\ idLock = NoThread
    /\ idLock' = t
    /\ pc' = [pc EXCEPT ![t] = "hasIdLock"]
    /\ lastReturn' = NoReturn
    /\ UNCHANGED <<editors, next_editor_id, edLock, frame, entities,
                   fs, handles, requested, assigned, tracking, persisted, ops>>

\* lib.rs:124: the guard on next_editor_id is dropped at the end of the block
DropGuardWrong(t) == t

DropGuard(t) == NoThread

\* lib.rs:122: *next_id += 1
IncrementWrong(n) == n

Increment(n) == n + 1

\* lib.rs:121-124: read the counter, increment it, drop the guard
CreateTakeId(t) ==
    /\ pc[t] = "hasIdLock"
    /\ idLock = t
    /\ frame' = [frame EXCEPT ![t].id = next_editor_id]
    /\ next_editor_id' = Increment(next_editor_id)
    /\ assigned' = Append(assigned, next_editor_id)
    /\ idLock' = DropGuard(t)
    /\ pc' = [pc EXCEPT ![t] = "wantEditors"]
    /\ lastReturn' = NoReturn
    /\ UNCHANGED <<editors, edLock, entities, fs, handles, requested,
                   tracking, persisted, ops>>

\* lib.rs:126: self.editors.lock()
CreateLockEditors(t) ==
    /\ pc[t] = "wantEditors"
    /\ edLock = NoThread
    /\ edLock' = t
    /\ pc' = [pc EXCEPT ![t] = "hasEditors"]
    /\ lastReturn' = NoReturn
    /\ UNCHANGED <<editors, next_editor_id, idLock, frame, entities,
                   fs, handles, requested, assigned, tracking, persisted, ops>>

\* HashMap::insert: add or replace the entry under `id`
insertWrong(map, id, storage) == [k \in {id + 1} |-> storage]

insert(map, id, storage) ==
    [k \in DOMAIN map \cup {id} |-> IF k = id THEN storage ELSE map[k]]

\* lib.rs:126-129: insert the record, drop the guard at the end of the statement
\* lib.rs:149 #[derive(Clone)]: the clone of a wrapper is a second wrapper on
\* the same panel entity (Entity::clone copies the handle, not the panel)
clone(wrapper) == [panel |-> wrapper.panel, file_path |-> wrapper.file_path]

CreateInsert(t) ==
    /\ pc[t] = "hasEditors"
    /\ edLock = t
    /\ editors' = insert(editors, frame[t].id,
                         EditorStorage(frame[t].panel, clone(frame[t].wrapper)))
    /\ edLock' = NoThread
    /\ pc' = [pc EXCEPT ![t] = "inserted"]
    /\ lastReturn' = NoReturn
    /\ UNCHANGED <<next_editor_id, idLock, frame, entities, fs,
                   handles, requested, assigned, tracking, persisted, ops>>

\* lib.rs:131-132: log and return Ok((panel_arc, wrapper))
CreateReturn(t) ==
    /\ pc[t] = "inserted"
    /\ handles' = handles \cup {frame[t].wrapper}
    /\ lastReturn' = [kind |-> "Ok", id |-> frame[t].id,
                      panel |-> frame[t].panel]
    /\ RecordReturn(t, frame[t].id)
    /\ frame' = [frame EXCEPT ![t] = NoFrame]
    /\ pc' = [pc EXCEPT ![t] = "idle"]
    /\ UNCHANGED <<editors, next_editor_id, idLock, edLock, entities, fs,
                   requested, assigned, tracking, persisted>>

\* ------------------------------------------------------------ on_unload
\* lib.rs:142: the host calls on_unload
UnloadCall(t) ==
    /\ pc[t] = "idle"
    /\ CallBudget
    /\ RecordCall(t, "clear")
    /\ frame' = [frame EXCEPT ![t] =
           [NoFrame EXCEPT !.op = IF tracking THEN Len(ops) + 1 ELSE 0]]
    /\ pc' = [pc EXCEPT ![t] = "wantUnload"]
    /\ lastReturn' = NoReturn
    /\ UNCHANGED <<editors, next_editor_id, idLock, edLock, entities, fs,
                   handles, requested, assigned, tracking, persisted>>

\* lib.rs:143: self.editors.lock()
UnloadLock(t) ==
    /\ pc[t] = "wantUnload"
    /\ edLock = NoThread
    /\ edLock' = t
    /\ pc' = [pc EXCEPT ![t] = "unloadLocked"]
    /\ lastReturn' = NoReturn
    /\ UNCHANGED <<editors, next_editor_id, idLock, frame, entities, fs,
                   handles, requested, assigned, tracking, persisted, ops>>

\* HashMap::len
lenWrong(map) == Cardinality(DOMAIN map) + 1

len(map) == Cardinality(DOMAIN map)

\* HashMap::clear
clearWrong(map) ==
    IF DOMAIN map = {} THEN map
    ELSE LET oldest == CHOOSE k \in DOMAIN map : \A j \in DOMAIN map : k <= j
         IN [k \in DOMAIN map \ {oldest} |-> map[k]]

clear(map) == [k \in {} |-> map[k]]

\* The counter as on_unload leaves it (lib.rs:142-147 never touches it).
CounterAfterUnloadWrong(n) == InitialEditorId

CounterAfterUnload(n) == n

\* lib.rs:144-145: count = editors.len(); editors.clear()
UnloadClear(t) ==
    /\ pc[t] = "unloadLocked"
    /\ edLock = t
    /\ frame' = [frame EXCEPT ![t].count = len(editors)]
    /\ editors' = clear(editors)
    /\ next_editor_id' = CounterAfterUnload(next_editor_id)
    /\ pc' = [pc EXCEPT ![t] = "unloadCleared"]
    /\ lastReturn' = NoReturn
    /\ UNCHANGED <<idLock, edLock, entities, fs, handles, requested, assigned,
                   tracking, persisted, ops>>

\* lib.rs:146-147: log the count, drop the guard, return
UnloadReturn(t) ==
    /\ pc[t] = "unloadCleared"
    /\ edLock = t
    /\ edLock' = NoThread
    /\ lastReturn' = [kind |-> "Unloaded", count |-> frame[t].count]
    /\ RecordReturn(t, frame[t].count)
    /\ frame' = [frame EXCEPT ![t] = NoFrame]
    /\ pc' = [pc EXCEPT ![t] = "idle"]
    /\ UNCHANGED <<editors, next_editor_id, idLock, entities, fs, handles,
                   requested, assigned, tracking, persisted>>

\* ------------------------------------------- instance handles (the host)
\* The user edits the document shown in a panel (editor.rs).
Edit(w, doc) ==
    /\ entities[w.panel].doc # doc
    /\ entities' = [entities EXCEPT ![w.panel].doc = doc]
    /\ lastReturn' = NoReturn
    /\ UNCHANGED <<editors, next_editor_id, idLock, edLock, pc, frame, fs,
                   handles, requested, assigned, tracking, persisted, ops>>

\* A write to `path` can succeed: its parent is a directory and it is not one.
Writable(f, path) ==
    /\ f[path] # "dir"
    /\ Len(path) > 1 => f[Parent(path)] = "dir"

\* lib.rs:161-165: save delegates to the panel's plugin_save (editor.rs)
Save(w, io_ok) ==
    LET path == entities[w.panel].path
        ok == io_ok /\ Writable(fs, path)
    IN /\ fs' = IF ok THEN [fs EXCEPT ![path] = entities[w.panel].doc] ELSE fs
       /\ persisted' = IF tracking /\ ok
                       THEN [persisted EXCEPT ![w.panel] = entities[w.panel].doc]
                       ELSE persisted
       /\ lastReturn' = [kind |-> IF ok THEN "SaveOk" ELSE "SaveErr", panel |-> w.panel]
       /\ UNCHANGED <<editors, next_editor_id, idLock, edLock, pc, frame,
                      entities, handles, requested, assigned, tracking, ops>>

\* lib.rs:167-171: reload delegates to the panel's plugin_reload (editor.rs)
Reload(w) ==
    LET path == entities[w.panel].path
        ok == fs[path] \in Docs
    IN /\ entities' = IF ok THEN [entities EXCEPT ![w.panel].doc = fs[path]]
                      ELSE entities
       /\ persisted' = IF tracking /\ ok
                       THEN [persisted EXCEPT ![w.panel] = fs[path]]
                       ELSE persisted
       /\ lastReturn' = [kind |-> IF ok THEN "ReloadOk" ELSE "ReloadErr", panel |-> w.panel]
       /\ UNCHANGED <<editors, next_editor_id, idLock, edLock, pc, frame, fs,
                      handles, requested, assigned, tracking, ops>>

Next ==
    \/ \E t \in Threads, e \in EditorIds : CreateNotFound(t, e)
    \/ \E t \in Threads, e \in EditorIds, p \in Paths : CreateBuild(t, e, p)
    \/ \E t \in Threads : CreateLockId(t)
    \/ \E t \in Threads : CreateTakeId(t)
    \/ \E t \in Threads : CreateLockEditors(t)
    \/ \E t \in Threads : CreateInsert(t)
    \/ \E t \in Threads : CreateReturn(t)
    \/ \E t \in Threads : UnloadCall(t)
    \/ \E t \in Threads : UnloadLock(t)
    \/ \E t \in Threads : UnloadClear(t)
    \/ \E t \in Threads : UnloadReturn(t)

\* The plugin as called by NumThreads concurrent host threads.
Spec == Init /\ [][Next]_vars

\* -------------------------------------------- the plugin and its instances
\* Two host threads calling the plugin while the host drives the instance
\* handles it was given (edit, save, reload).
HostThreads == {1, 2}

NextHost ==
    \/ \E t \in HostThreads, e \in EditorIds : CreateNotFound(t, e)
    \/ \E t \in HostThreads, e \in EditorIds, p \in Paths : CreateBuild(t, e, p)
    \/ \E t \in HostThreads : CreateLockId(t)
    \/ \E t \in HostThreads : CreateTakeId(t)
    \/ \E t \in HostThreads : CreateLockEditors(t)
    \/ \E t \in HostThreads : CreateInsert(t)
    \/ \E t \in HostThreads : CreateReturn(t)
    \/ \E t \in HostThreads : UnloadCall(t)
    \/ \E t \in HostThreads : UnloadLock(t)
    \/ \E t \in HostThreads : UnloadClear(t)
    \/ \E t \in HostThreads : UnloadReturn(t)
    \/ \E w \in handles, d \in Docs : Edit(w, d)
    \/ \E w \in handles, io_ok \in BOOLEAN : Save(w, io_ok)
    \/ \E w \in handles : Reload(w)

SpecHost == Init /\ [][NextHost]_vars

\* ------------------------------------------- lifecycle hook and queries
\* The plugin object as the queries see it (&self).
self == [editors |-> editors, next_editor_id |-> next_editor_id]

\* A plugin object as TraitEditorPlugin::default() builds it.
Fresh == [editors |-> EmptyMap, next_editor_id |-> InitialEditorId]

\* lib.rs:57-65
metadataWrong(plugin) ==
    [id |-> "com.pulsar.trait-editor", name |-> "Trait Editor",
     version |-> <<0, 1, len(plugin.editors)>>, author |-> "Pulsar Team"]

metadata(plugin) ==
    [id |-> "com.pulsar.trait-editor", name |-> "Trait Editor",
     version |-> <<0, 1, 0>>, author |-> "Pulsar Team"]

\* lib.rs:67-86
file_types(plugin) ==
    <<[id |-> "trait", extension |-> "trait", display_name |-> "Trait Definition",
       marker_file |-> MarkerFile, default_content |-> DefaultDoc,
       categories |-> <<"Types">>]>>

\* lib.rs:88-94: fn editors(&self)
editors_list(plugin) ==
    <<[id |-> SupportedEditorId, display_name |-> "Trait Editor",
       supported_file_types |-> <<"trait">>]>>

\* lib.rs:138-140: on_load only logs
OnLoad(t) ==
    /\ pc[t] = "idle"
    /\ lastReturn' = [kind |-> "Loaded"]
    /\ UNCHANGED <<editors, next_editor_id, idLock, edLock, pc, frame, entities,
                   fs, handles, requested, assigned, tracking, persisted, ops>>

\* lib.rs:57-94: the three declarative queries
Query(t, which) ==
    /\ pc[t] = "idle"
    /\ lastReturn' = [kind |-> which,
                      value |-> CASE which = "metadata" -> metadata(self)
                                  [] which = "file_types" -> file_types(self)
                                  [] which = "editors" -> editors_list(self)]
    /\ UNCHANGED <<editors, next_editor_id, idLock, edLock, pc, frame, entities,
                   fs, handles, requested, assigned, tracking, persisted, ops>>

\* lib.rs:157-159 and 173-175: the host asks a handle for its path or dirty flag
Ask(w, which) ==
    /\ lastReturn' = [kind |-> which, panel |-> w.panel,
                      value |-> IF which = "file_path" THEN file_path(w)
                                ELSE is_dirty(w)]
    /\ UNCHANGED <<editors, next_editor_id, idLock, edLock, pc, frame, entities,
                   fs, handles, requested, assigned, tracking, persisted, ops>>

NextApi ==
    \/ NextHost
    \/ \E t \in HostThreads : OnLoad(t)
    \/ \E t \in HostThreads, q \in {"metadata", "file_types", "editors"} : Query(t, q)
    \/ \E w \in handles, q \in {"file_path", "is_dirty"} : Ask(w, q)

\* The same, with the histories recorded.
InitDirty ==
    /\ InitBase
    /\ fs \in FileSystems
    /\ tracking = TRUE

SpecDirty == InitDirty /\ [][NextHost]_vars

\* --------------------------------------------- registry calls with history
\* The same registry operations with the call history recorded, on a file
\* system with nothing on it.
InitLin ==
    /\ InitBase
    /\ fs = [p \in AllPaths |-> "missing"]
    /\ tracking = TRUE

NextLin ==
    \/ \E t \in Threads, p \in Paths : CreateBuild(t, SupportedEditorId, p)
    \/ \E t \in Threads : CreateLockId(t)
    \/ \E t \in Threads : CreateTakeId(t)
    \/ \E t \in Threads : CreateLockEditors(t)
    \/ \E t \in Threads : CreateInsert(t)
    \/ \E t \in Threads : CreateReturn(t)
    \/ \E t \in Threads : UnloadCall(t)
    \/ \E t \in Threads : UnloadLock(t)
    \/ \E t \in Threads : UnloadClear(t)
    \/ \E t \in Threads : UnloadReturn(t)

SpecLin == InitLin /\ [][NextLin]_vars

\* ------------------------------------------------- fair registry calls
\* The registry calls under fair scheduling: a thread that can take a step
\* inside a call eventually takes it, and a thread blocked on a mutex that
\* is free again and again eventually gets it.
Acquire(t) == CreateLockId(t) \/ CreateLockEditors(t) \/ UnloadLock(t)

Run(t) ==
    \/ CreateTakeId(t)
    \/ CreateInsert(t)
    \/ CreateReturn(t)
    \/ UnloadClear(t)
    \/ UnloadReturn(t)

Fairness == \A t \in Threads : WF_vars(Run(t)) /\ SF_vars(Acquire(t))

InitFair ==
    /\ InitBase
    /\ fs = [p \in AllPaths |-> "missing"]
    /\ tracking = FALSE

SpecFair == InitFair /\ [][NextLin]_vars /\ Fairness

\* The plugin with every operation of its interface, on an empty file system.
SpecApi == InitFair /\ [][NextApi]_vars

\* ------------------------------------------------------------ properties
Quiescent == \A t \in Threads : pc[t] = "idle"

\* C1: the ids assigned by create_editor are strictly increasing in
\* assignment order, so no id is assigned twice, whatever on_unload calls
\* are interleaved and whatever instances they destroyed.
C1_IdsStrictlyIncreasing ==
    \A i, j \in 1..Len(assigned) : i < j => assigned[i] < assigned[j]

\* The record of id i was inserted and an on_unload destroyed it.
Destroyed(i) ==
    /\ \E k \in 1..Len(assigned) : assigned[k] = i
    /\ i \notin DOMAIN editors
    /\ \A t \in Threads : ~(pc[t] \in {"wantEditors", "hasEditors"} /\ frame[t].id = i)

\* Two ids were assigned; the instance of the first has been destroyed and
\* the create_editor call that got the second has just returned.
C1_Witness ==
    /\ Len(assigned) >= 2
    /\ Destroyed(assigned[1])
    /\ lastReturn.kind = "Ok"
    /\ lastReturn.id = assigned[Len(assigned)]
    /\ DOMAIN editors = {assigned[Len(assigned)]}

\* An id has been assigned to thread t and its record is not inserted yet.
InWindow(t) == pc[t] \in {"wantEditors", "hasEditors"}

\* Thread u takes an id, inserts its record, or clears the table in this step.
TakesEffect(u) ==
    \/ pc[u] = "hasIdLock" /\ pc'[u] = "wantEditors"
    \/ pc[u] = "hasEditors" /\ pc'[u] = "inserted"
    \/ pc[u] = "unloadLocked" /\ pc'[u] = "unloadCleared"

\* C2: the id assignment and the insertion of create_editor are one atomic
\* step for every other caller: while a call holds an assigned id whose
\* record is not inserted yet, no other id assignment, insertion or clear
\* takes effect.
C2_CreateIsAtomic ==
    [][\A t \in Threads :
          InWindow(t) => \A u \in Threads \ {t} : ~TakesEffect(u)]_vars

\* C3: distinct instances never share a panel entity (neither two registry
\* records, nor two calls in flight, nor two handles held by the host), calls
\* in flight hold different ids, and a step that changes the document of one
\* instance leaves the document of every other instance unchanged.
Doc(w) == entities[w.panel].doc

InFlight(t) == pc[t] \in {"wantEditors", "hasEditors", "inserted"}

C3_DistinctInstances ==
    /\ \A i, j \in DOMAIN editors :
          i # j => /\ editors[i].panel # editors[j].panel
                   /\ editors[i].wrapper.panel # editors[j].wrapper.panel
    /\ \A t, u \in Threads :
          (t # u /\ pc[t] # "idle" /\ pc[u] # "idle"
                 /\ frame[t].panel # 0 /\ frame[u].panel # 0)
              => frame[t].panel # frame[u].panel
    /\ \A t, u \in Threads :
          (t # u /\ InFlight(t) /\ InFlight(u)) => frame[t].id # frame[u].id
    /\ \A i \in DOMAIN editors : \A t \in Threads :
          InFlight(t) /\ frame[t].id = i => editors[i].panel = frame[t].panel
    /\ \A w1, w2 \in handles : w1 # w2 => w1.panel # w2.panel

C3_EditIsLocal ==
    \A w1, w2 \in handles :
        (w1 # w2 /\ entities'[w1.panel].doc # entities[w1.panel].doc)
            => entities'[w2.panel].doc = entities[w2.panel].doc

C3_IndependentInstances == []C3_DistinctInstances /\ [][C3_EditIsLocal]_vars

\* Two live instances opened on the same path hold different documents.
C3_Witness ==
    \E i, j \in DOMAIN editors :
        /\ i # j
        /\ file_path(editors[i].wrapper) = file_path(editors[j].wrapper)
        /\ editors[i].wrapper \in handles
        /\ editors[j].wrapper \in handles
        /\ Doc(editors[i].wrapper) # Doc(editors[j].wrapper)

\* C4: on_unload empties the registry, the registry is still empty when it
\* returns, and the count it reports is the number of records that were in
\* the registry right before the clear.
C4_UnloadClearsAndCounts ==
    [][\A t \in Threads :
          /\ (pc[t] = "unloadLocked" /\ pc'[t] = "unloadCleared")
                => /\ DOMAIN editors' = {}
                   /\ frame'[t].count = Cardinality(DOMAIN editors)
          /\ (pc[t] = "unloadCleared" /\ pc'[t] = "idle")
                => /\ DOMAIN editors = {}
                   /\ DOMAIN editors' = {}
                   /\ lastReturn'.kind = "Unloaded"
                   /\ lastReturn'.count = frame[t].count]_vars

\* An unload that destroyed two instances has just returned.
C4_Witness ==
    /\ lastReturn.kind = "Unloaded"
    /\ lastReturn.count = 2
    /\ DOMAIN editors = {}

\* C5: a create_editor call with an editor id other than "trait-editor"
\* returns EditorNotFound carrying the requested id, changes neither the
\* registry nor the counter, and never gets to build an instance.
C5_UnsupportedEditorRejected ==
    [][/\ \A t \in Threads :
             (pc[t] = "idle" /\ pc'[t] = "wantId")
                 => frame'[t].editor_id = "trait-editor"
       /\ lastReturn'.kind = "Err"
             => /\ lastReturn'.requested # "trait-editor"
                /\ lastReturn'.error = [variant |-> "EditorNotFound",
                                        editor_id |-> lastReturn'.requested]
                /\ editors' = editors
                /\ next_editor_id' = next_editor_id
                /\ entities' = entities
                /\ pc' = pc]_vars

\* A call with an unsupported id was rejected while an instance was live.
C5_Witness ==
    /\ lastReturn.kind = "Err"
    /\ lastReturn.requested = "Trait-Editor"
    /\ DOMAIN editors # {}

\* The sequential reference registry: create assigns the next id and
\* inserts in one step, clear empties the table in one step.
RefInit == [next |-> 0, keys |-> {}]

RefApply(st, kind) ==
    IF kind = "create"
    THEN [res |-> st.next, st |-> [next |-> st.next + 1, keys |-> st.keys \cup {st.next}]]
    ELSE [res |-> Cardinality(st.keys), st |-> [next |-> st.next, keys |-> {}]]

Orders(n) == {f \in [1..n -> 1..n] : \A i, j \in 1..n : i # j => f[i] # f[j]}

\* A call that returned before another was issued comes first.
RealTime(order) ==
    \A k1, k2 \in DOMAIN order :
        k1 < k2 => order[k2] \notin ops[order[k1]].before

RECURSIVE Replays(_, _, _)
Replays(order, k, st) ==
    IF k > Len(ops) THEN st.keys = DOMAIN editors
    ELSE LET step == RefApply(st, ops[order[k]].kind)
         IN step.res = ops[order[k]].res /\ Replays(order, k + 1, step.st)

C7_UnloadKeepsCounter ==
    /\ [][\A t \in Threads :
             /\ (pc[t] = "unloadLocked" /\ pc'[t] = "unloadCleared")
                   => /\ next_editor_id' = next_editor_id
                      /\ DOMAIN editors' = {}
             /\ (pc[t] = "hasIdLock" /\ pc'[t] = "wantEditors")
                   => \A i \in 1..Len(assigned) : assigned[i] < frame'[t].id]_vars
    /\ [](\A i \in 1..Len(assigned) : assigned[i] < next_editor_id)

\* Every earlier instance was destroyed by an unload that has returned, and
\* the step just taken is a create_editor call taking its id from the
\* counter as the unload left it.
C7_Witness ==
    \E t \in Threads :
        /\ pc[t] = "wantEditors"
        /\ lastReturn = NoReturn
        /\ DOMAIN editors = {}
        /\ \A u \in Threads \ {t} : pc[u] = "idle"
        /\ frame[t].id >= 1
        /\ \A i \in 0..(frame[t].id - 1) : Destroyed(i)

\* C8: the panel is opened on path/trait.json when the path is a directory
\* and on the path itself otherwise (a file, or nothing at all).
C8_PathResolution ==
    [][\A t \in Threads :
          (pc[t] = "idle" /\ pc'[t] = "wantId")
              => LET p == frame'[t].file_path
                     opened == entities'[frame'[t].panel].path
                 IN IF fs[p] = "dir"
                    THEN opened = p \o <<"trait.json">>
                    ELSE opened = p]_vars

\* One instance opened through a directory and one on a missing path.
C8_Witness ==
    \E w1, w2 \in handles :
        /\ fs[w1.file_path] = "dir"
        /\ entities[w1.panel].path = w1.file_path \o <<"trait.json">>
        /\ fs[w2.file_path] = "missing"
        /\ entities[w2.panel].path = w2.file_path

\* C9: file_path() of every instance, the host's handle and the registry's
\* copy alike, is the path create_editor was called with, in every state.
C9_FilePathIsOriginal ==
    /\ \A w \in handles : file_path(w) = requested[w.panel]
    /\ \A i \in DOMAIN editors :
          file_path(editors[i].wrapper) = requested[editors[i].wrapper.panel]

\* A handle opened through a directory, after a save, an unload and a reload.
C9_Witness ==
    \E w \in handles :
        /\ file_path(w) # entities[w.panel].path
        /\ fs[entities[w.panel].path] = "Edited"
        /\ DOMAIN editors = {}
        /\ Quiescent
        /\ lastReturn = [kind |-> "ReloadOk", panel |-> w.panel]

\* C10: on_unload on an empty registry reports 0 and changes neither the
\* registry nor the counter.
C10_UnloadOnEmpty ==
    [][\A t \in Threads :
          /\ (pc[t] = "unloadLocked" /\ pc'[t] = "unloadCleared" /\ DOMAIN editors = {})
                => /\ frame'[t].count = 0
                   /\ editors' = editors
                   /\ next_editor_id' = next_editor_id
          /\ (pc[t] = "unloadCleared" /\ pc'[t] = "idle")
                => /\ lastReturn' = [kind |-> "Unloaded", count |-> frame[t].count]
                   /\ editors' = editors
                   /\ next_editor_id' = next_editor_id]_vars

\* An unload that found nothing has just returned after an earlier unload
\* destroyed every instance ever created.
C10_Witness ==
    /\ lastReturn.kind = "Unloaded"
    /\ lastReturn.count = 0
    /\ Quiescent
    /\ Len(assigned) >= 1
    /\ DOMAIN editors = {}

\* The registry and the counter as each call of the plugin leaves them when
\* it runs from the current state to its return without interference:
\* on_unload, a successful create_editor on each path, and the calls that
\* write neither (a rejected create_editor, on_load, the queries).
CallResults ==
    {[editors |-> clear(editors), next |-> CounterAfterUnload(next_editor_id)]}
    \cup {[editors |-> insert(editors, next_editor_id,
                              EditorStorage(NewEntity(entities, actual_path(fs, p)),
                                  NewWrapper(NewEntity(entities, actual_path(fs, p)),
                                             p, actual_path(fs, p)))),
           next |-> Increment(next_editor_id)] : p \in Paths}
    \cup {[editors |-> editors, next |-> next_editor_id]}

\* The registry without record i, every other record as it is.
Without(map, i) == [k \in DOMAIN map \ {i} |-> map[k]]

\* C11: the registry offers remove(id): for every record present, some call
\* of the plugin removes exactly that record and leaves every other record
\* and the id counter unchanged.
C11_RemoveOffered ==
    \A i \in DOMAIN editors :
        \E r \in CallResults :
            r.editors = Without(editors, i) /\ r.next = next_editor_id

\* C12: is_dirty() of an instance tells whether its in-memory document
\* differs from the document it last loaded, reloaded or saved.
C12_DirtyReflectsEdits ==
    tracking =>
        \A w \in handles : is_dirty(w) = (Doc(w) # persisted[w.panel])

\* A thread blocked on a mutex.
Waiting(t) == pc[t] \in {"wantId", "wantEditors", "wantUnload"}

NoHoldAndWait ==
    \A t \in Threads :
        /\ ~(idLock = t /\ edLock = t)
        /\ Waiting(t) => (idLock # t /\ edLock # t)
        /\ pc[t] = "idle" => (idLock # t /\ edLock # t)

Built(t) == pc[t] \in {"wantId", "hasIdLock", "wantEditors", "hasEditors", "inserted"}

\* C14: every record in the registry has its panel handle and its wrapper
\* set, both on the same existing panel, and a create_editor call has built
\* both before it asks for an id.
C14_NoHalfBuiltRecord ==
    /\ \A i \in DOMAIN editors :
          /\ editors[i].panel \in 1..Len(entities)
          /\ editors[i].wrapper.panel = editors[i].panel
          /\ editors[i].wrapper.file_path \in Paths
    /\ \A t \in Threads :
          Built(t) => /\ frame[t].panel \in 1..Len(entities)
                      /\ frame[t].wrapper.panel = frame[t].panel
                      /\ frame[t].wrapper.file_path = frame[t].file_path

\* A record is in the registry, its create_editor call has not returned
\* yet, and an on_unload call holding the table lock is looking at it.
C14_Witness ==
    \E t, u \in Threads :
        /\ pc[t] = "inserted"
        /\ frame[t].id \in DOMAIN editors
        /\ pc[u] = "unloadLocked"

\* C16: every key of the registry is an id a create_editor call was
\* assigned and lies below the counter, there are never more records than
\* assigned ids, and the only step that adds a key is the insert of a
\* create_editor call, under the id of that call.
C16_OnlyCreateAdds ==
    /\ [](/\ \A i \in DOMAIN editors :
                /\ \E k \in 1..Len(assigned) : assigned[k] = i
                /\ i < next_editor_id
          /\ Cardinality(DOMAIN editors) <= Len(assigned))
    /\ [][\A i \in DOMAIN editors' \ DOMAIN editors :
             \E t \in Threads :
                 /\ pc[t] = "hasEditors"
                 /\ pc'[t] = "inserted"
                 /\ frame[t].editor_id = "trait-editor"
                 /\ frame[t].id = i]_vars

\* Two create_editor calls have returned and both records are in the registry.
C16_Witness ==
    /\ Cardinality(DOMAIN editors) >= 2
    /\ Quiescent
    /\ lastReturn.kind = "Ok"

\* C19: ids are assigned gap-free from 0: the counter is the number of ids
\* assigned, the k-th assigned id is k-1, and a create_editor call rejected
\* with EditorNotFound leaves the counter alone.
C19_GapFreeIds ==
    /\ [](/\ next_editor_id = Len(assigned)
          /\ \A k \in 1..Len(assigned) : assigned[k] = k - 1)
    /\ [][lastReturn'.kind = "Err"
             => /\ next_editor_id' = next_editor_id
                /\ assigned' = assigned]_vars

\* A call was rejected after two ids had been assigned.
C19_Witness ==
    /\ lastReturn.kind = "Err"
    /\ assigned = <<0, 1>>
    /\ next_editor_id = 2

\* The wrappers that can save and reload panel p: the ones kept in registry
\* records and the ones handed to the host.
Holders(p) ==
    {<<"registry", i>> : i \in {j \in DOMAIN editors : editors[j].wrapper.panel = p}}
    \cup {<<"host", w>> : w \in {h \in handles : h.panel = p}}

\* C17: for every panel at most one wrapper holds the save/reload
\* capability over it: the wrapper in the registry record and the handle
\* returned to the host are not two holders of the same document.
C17_ExclusiveWrapper ==
    \A p \in 1..Len(entities) : Cardinality(Holders(p)) <= 1

\* The step in which an on_unload call empties the registry.
ClearStep == \E t \in Threads : pc[t] = "unloadLocked" /\ pc'[t] = "unloadCleared"

\* C15: a record in the registry stays there under its id, unchanged, in
\* every step that is not the clear of an on_unload call.
C15_RecordStaysUntilUnload ==
    [][ClearStep \/ \A i \in DOMAIN editors :
                       i \in DOMAIN editors' /\ editors'[i] = editors[i]]_vars

\* Record 0 is still in the registry after a second create_editor call
\* added record 1 and the handle of record 0 was saved.
C15_Witness ==
    /\ {0, 1} \subseteq DOMAIN editors
    /\ lastReturn.kind = "SaveOk"
    /\ lastReturn.panel = editors[0].panel

\* C18: on_load, metadata, file_types and editors leave the registry and
\* the id counter as they were, and each query returns what it returns on a
\* freshly built plugin, whatever the state it is called in.
C18_QueriesArePure ==
    [][/\ lastReturn'.kind \in {"Loaded", "metadata", "file_types", "editors"}
          => editors' = editors /\ next_editor_id' = next_editor_id
       /\ lastReturn'.kind = "metadata" => lastReturn'.value = metadata(Fresh)
       /\ lastReturn'.kind = "file_types" => lastReturn'.value = file_types(Fresh)
       /\ lastReturn'.kind = "editors" => lastReturn'.value = editors_list(Fresh)]_vars

\* metadata was asked while the registry held a record and a create_editor
\* call was under way.
C18_Witness ==
    /\ lastReturn.kind = "metadata"
    /\ DOMAIN editors # {}
    /\ \E t \in Threads : pc[t] = "wantEditors"

====
